---- MODULE Spec2Model ----
(***************************************************************************)
(* Model of the reflect-api-rs handlers: the quote and transaction         *)
(* generation endpoints of src/stablecoin, the per-asset read endpoints,    *)
(* and the integration transaction stubs.                                   *)
(*                                                                          *)
(* Two specifications:                                                      *)
(*   Spec       one handler is called at a time, directly, as the unit      *)
(*              tests of the repository call them; `call` is the call and   *)
(*              `ret` the (status, body) pair it returned.                  *)
(*   SpecServe  the server of main.rs: requests are received into           *)
(*              connection slots, handled and sent back in any              *)
(*              interleaving; `state` is the shared AppState.               *)
(*                                                                          *)
(* A JSON body is a record; an absent JSON field is an absent record field. *)
(***************************************************************************)
EXTENDS Integers, FiniteSets, Sequences, TLC

VARIABLES call, ret, pc, req, resp, state

vars == <<call, ret, pc, req, resp, state>>

(***************************************************************************)
(* Bounds of the model                                                      *)
(***************************************************************************)
\* deposit amounts -MaxDeficit..MaxAmount are enumerated for the quote
MaxDeficit == 2
MaxAmount == 2001
\* number of connections the server handles at the same time
NumSlots == 2
\* the amounts i64::MAX - MaxBelowMax .. i64::MAX are enumerated
MaxBelowMax == 30

Slots == 1..NumSlots

(***************************************************************************)
(* Inputs                                                                   *)
(***************************************************************************)
\* the amounts of the repository's tests (-100, 1_000_000) and a range
\* around the fee steps at 1000 and 2000
Amounts == (-MaxDeficit..MaxAmount) \cup {-100, 1000000}

\* amounts used where the magnitude does not enter the computation
TxAmounts == {-100, -1, 0, 1, 999, 1000, 1000000}

\* u32 stablecoin indices: the known asset 0, its neighbour, the tests' 99
Indices == {0, 1, 99}

QuoteTypes == {"mint", "redeem", "burn", "invalid"}

Signers == {"", "test_signer"}

MinimumReceived == {0, 999000, 1000001}

\* Option<String>: None or Some(s)
None == [some |-> FALSE]
Some(v) == [some |-> TRUE, value |-> v]

CollateralMints == {None, Some("test_mint")}

Clusters == {None, Some("mainnet"), Some("devnet")}

\* path segment of /stablecoin/:index/apy, extracted as a String
PathStrings == {"0", "1", "99"}

\* Option<u32> days of the historical APY query, u32 days of the rates query
OptDays == {None, Some(0), Some(1), Some(30), Some(365)}
Days == {0, 1, 30}

\* readings of the clock
Timestamps == {"2025-12-19T16:55:42.407Z", "2025-12-19T16:55:43.000Z"}

\* f64 amounts of the integration requests (integral values)
IntegrationAmounts == {-100, 0, 1000000}

Parties == {"", "9WzDXwBbmkg8ZTbNMqUxvQRAyrZzDsGYdLVL9zYtAWWM"}

(***************************************************************************)
(* HTTP status codes used by the handlers                                   *)
(***************************************************************************)
OK == 200
BAD_REQUEST == 400
NOT_FOUND == 404
INTERNAL_SERVER_ERROR == 500

\* a handler's return value (StatusCode, Json(body))
Response(status, body) == [status |-> status, body |-> body]

\* Rust's integer division truncates toward zero
TruncDiv(a, b) ==
    IF (a >= 0) = (b > 0) THEN (IF a >= 0 THEN a ELSE -a) \div (IF b > 0 THEN b ELSE -b)
    ELSE -((IF a >= 0 THEN a ELSE -a) \div (IF b > 0 THEN b ELSE -b))

(***************************************************************************)
(* Exact arithmetic on the i64 range.  A magnitude is a sequence of        *)
(* NLimbs digits in base Base, least significant first; an i64 is a sign    *)
(* and a magnitude.  With Base = 1000 the division by 1000 of the quote     *)
(* drops the lowest digit.                                                  *)
(***************************************************************************)
Base == 1000
NLimbs == 8
Limbs == 1..NLimbs

\* the magnitude of a natural number that fits the checker's integers
Wide(n) ==
    LET rest[i \in Limbs] == IF i = 1 THEN n ELSE rest[i - 1] \div Base
    IN [i \in Limbs |-> rest[i] % Base]

WideZero == [i \in Limbs |-> 0]

WideLess(a, b) ==
    \E i \in Limbs : a[i] < b[i] /\ \A j \in Limbs : j > i => a[j] = b[j]

WideLeq(a, b) == a = b \/ WideLess(a, b)

WideAdd(a, b) ==
    LET carry[i \in 0..NLimbs] ==
            IF i = 0 THEN 0 ELSE (a[i] + b[i] + carry[i - 1]) \div Base
    IN [i \in Limbs |-> (a[i] + b[i] + carry[i - 1]) % Base]

\* a - b for a >= b
WideSub(a, b) ==
    LET borrow[i \in 0..NLimbs] ==
            IF i = 0 THEN 0
            ELSE IF a[i] - b[i] - borrow[i - 1] < 0 THEN 1 ELSE 0
    IN [i \in Limbs |-> (a[i] - b[i] - borrow[i - 1]) % Base]

\* a * k for a factor k <= Base
WideMulSmall(a, k) ==
    LET carry[i \in 0..NLimbs] ==
            IF i = 0 THEN 0 ELSE (a[i] * k + carry[i - 1]) \div Base
    IN [i \in Limbs |-> (a[i] * k + carry[i - 1]) % Base]

\* a / Base
WideDivBase(a) == [i \in Limbs |-> IF i < NLimbs THEN a[i + 1] ELSE 0]

\* i64::MAX = 9_223_372_036_854_775_807 and 2^64 = 18_446_744_073_709_551_616
I64_MAX == <<807, 775, 854, 36, 372, 223, 9, 0>>
TWO_POW_64 == <<616, 551, 709, 73, 744, 446, 18, 0>>

I64(neg, mag) == [neg |-> neg /\ mag # WideZero, mag |-> mag]

i64_is_positive(x) == ~x.neg /\ x.mag # WideZero

\* the mathematical sum and difference of two signed values
SignedAdd(x, y) ==
    IF x.neg = y.neg THEN I64(x.neg, WideAdd(x.mag, y.mag))
    ELSE IF WideLeq(y.mag, x.mag) THEN I64(x.neg, WideSub(x.mag, y.mag))
         ELSE I64(y.neg, WideSub(y.mag, x.mag))

SignedSub(x, y) == SignedAdd(x, I64(~y.neg, y.mag))

\* the value lies in i64::MIN..=i64::MAX
InI64(x) ==
    IF x.neg THEN WideLeq(x.mag, WideAdd(I64_MAX, Wide(1)))
    ELSE WideLeq(x.mag, I64_MAX)

\* two's complement wrapping of a value in -2^64..2^64
WrapI64(x) ==
    IF InI64(x) THEN x ELSE I64(~x.neg, WideSub(TWO_POW_64, x.mag))

\* i64 `+` and `-`: overflow panics with overflow checks on (debug build)
\* and wraps with them off (release build)
i64_add(x, y) ==
    [overflow |-> ~InI64(SignedAdd(x, y)), value |-> WrapI64(SignedAdd(x, y))]

i64_sub(x, y) ==
    [overflow |-> ~InI64(SignedSub(x, y)), value |-> WrapI64(SignedSub(x, y))]

\* i64 `/ 1000`, truncating toward zero
i64_div_1000(x) == I64(x.neg, WideDivBase(x.mag))

(***************************************************************************)
(* stablecoin/get_mint_redeem_quote.rs                                      *)
(***************************************************************************)
QuoteRequest(stablecoinIndex, depositAmount) ==
    [stablecoinIndex |-> stablecoinIndex, depositAmount |-> depositAmount]

\* mutant: the fee is rounded to the nearest unit instead of truncated
quoted_amount_fee_rounded(r) ==
    r.depositAmount - TruncDiv(r.depositAmount + 500, 1000)

\* mutant: the fee is rounded up instead of truncated
quoted_amount_fee_ceiling(r) ==
    r.depositAmount - TruncDiv(r.depositAmount + 999, 1000)

\* mutant: the fee is 1% (amount / 100) instead of 0.1%
quoted_amount_fee_1pct(r) == r.depositAmount - TruncDiv(r.depositAmount, 100)

\* let quoted_amount = req.depositAmount - (req.depositAmount / 1000);
quoted_amount(r) == r.depositAmount - TruncDiv(r.depositAmount, 1000)

\* mutant: the amount check is `< 0`, so a zero deposit is quoted
get_mint_redeem_quote_zero_accepted(quote_type, r) ==
    IF r.depositAmount < 0
    THEN Response(BAD_REQUEST,
                  [success |-> FALSE,
                   message |-> "Invalid request data: depositAmount must be positive"])
    ELSE IF quote_type \in {"mint", "redeem"}
         THEN Response(OK, [success |-> TRUE, data |-> quoted_amount(r)])
         ELSE Response(NOT_FOUND,
                       [success |-> FALSE, message |-> "Invalid request type"])

\* mutant: the fee grows with the load, the number of requests in flight
get_mint_redeem_quote_load_fee(quote_type, r) ==
    IF r.depositAmount <= 0
    THEN Response(BAD_REQUEST,
                  [success |-> FALSE,
                   message |-> "Invalid request data: depositAmount must be positive"])
    ELSE IF quote_type \in {"mint", "redeem"}
         THEN Response(OK, [success |-> TRUE,
                            data |-> r.depositAmount
                                     - Cardinality({s \in Slots : pc[s] # "idle"})
                                       * TruncDiv(r.depositAmount, 1000)])
         ELSE Response(NOT_FOUND,
                       [success |-> FALSE, message |-> "Invalid request type"])

\* mutant: the quote type is not matched, every type is quoted
get_mint_redeem_quote_any_type(quote_type, r) ==
    IF r.depositAmount <= 0
    THEN Response(BAD_REQUEST,
                  [success |-> FALSE,
                   message |-> "Invalid request data: depositAmount must be positive"])
    ELSE Response(OK, [success |-> TRUE, data |-> quoted_amount(r)])

\* mutant: "burn" is a third accepted quote type
get_mint_redeem_quote_burn_accepted(quote_type, r) ==
    IF r.depositAmount <= 0
    THEN Response(BAD_REQUEST,
                  [success |-> FALSE,
                   message |-> "Invalid request data: depositAmount must be positive"])
    ELSE IF quote_type \in {"mint", "redeem", "burn"}
         THEN Response(OK, [success |-> TRUE, data |-> quoted_amount(r)])
         ELSE Response(NOT_FOUND,
                       [success |-> FALSE, message |-> "Invalid request type"])

\* mutant: a redeem quote has no fee
get_mint_redeem_quote_redeem_free(quote_type, r) ==
    IF r.depositAmount <= 0
    THEN Response(BAD_REQUEST,
                  [success |-> FALSE,
                   message |-> "Invalid request data: depositAmount must be positive"])
    ELSE IF quote_type = "mint"
         THEN Response(OK, [success |-> TRUE, data |-> quoted_amount(r)])
         ELSE IF quote_type = "redeem"
              THEN Response(OK, [success |-> TRUE, data |-> r.depositAmount])
              ELSE Response(NOT_FOUND,
                            [success |-> FALSE, message |-> "Invalid request type"])

get_mint_redeem_quote(quote_type, r) ==
    IF r.depositAmount <= 0
    THEN Response(BAD_REQUEST,
                  [success |-> FALSE,
                   message |-> "Invalid request data: depositAmount must be positive"])
    ELSE IF quote_type \in {"mint", "redeem"}
         THEN Response(OK, [success |-> TRUE, data |-> quoted_amount(r)])
         ELSE Response(NOT_FOUND,
                       [success |-> FALSE, message |-> "Invalid request type"])

\* ---- the same handler on the whole i64 range of depositAmount ----

\* mutant: the fee is added to the amount
quoted_amount_i64_fee_added(r) == i64_add(r.depositAmount, i64_div_1000(r.depositAmount))

\* let quoted_amount = req.depositAmount - (req.depositAmount / 1000);
quoted_amount_i64(r) == i64_sub(r.depositAmount, i64_div_1000(r.depositAmount))

\* the handler task panicked: no response is produced
Panicked == [status |-> 0, body |-> [panic |-> "arithmetic overflow"]]

\* the set of outcomes the builds of the handler can produce
get_mint_redeem_quote_i64(quote_type, r) ==
    IF ~i64_is_positive(r.depositAmount)
    THEN {Response(BAD_REQUEST,
                   [success |-> FALSE,
                    message |-> "Invalid request data: depositAmount must be positive"])}
    ELSE LET outcomes ==
                 IF quote_type \in {"mint", "redeem"}
                 THEN {Response(OK, [success |-> TRUE,
                                     data |-> quoted_amount_i64(r).value])}
                 ELSE {Response(NOT_FOUND,
                                [success |-> FALSE, message |-> "Invalid request type"])}
         IN IF quoted_amount_i64(r).overflow
            THEN {Panicked} \cup outcomes
            ELSE outcomes

(***************************************************************************)
(* stablecoin/generate_mint_transaction.rs                                  *)
(***************************************************************************)
MintRequest(stablecoinIndex, depositAmount, signer, minimumReceived, collateralMint) ==
    [stablecoinIndex |-> stablecoinIndex, depositAmount |-> depositAmount,
     signer |-> signer, minimumReceived |-> minimumReceived,
     collateralMint |-> collateralMint]

ClusterQuery(cluster) == [cluster |-> cluster]

\* the simulated transaction string of both transaction handlers
SimulatedTx ==
    "AQAAAAAAAAAAAAAAAAAAAAAAAAAAAAAAAAAAAAAAAAAAAAAAAAAAAAAAAAAAAAAAAAAAAAAAAAAAAAAAAAAAAAABAAED..."

\* mutant: the transaction is built for the selected cluster
generate_mint_transaction_per_cluster(cluster, r) ==
    IF r.depositAmount <= 0
    THEN Response(BAD_REQUEST,
                  [success |-> FALSE,
                   message |-> "Invalid request data: depositAmount must be positive"])
    ELSE IF r.stablecoinIndex # 0
         THEN Response(NOT_FOUND,
                       [success |-> FALSE,
                        message |-> "Stablecoin with the specified index not found"])
         ELSE Response(OK, [success |-> TRUE,
                            data |-> [transaction |->
                                        IF cluster.cluster = Some("devnet")
                                        THEN "AgAAAA..." ELSE SimulatedTx]])

\* mutant: the index is validated before the amount
generate_mint_transaction_index_first(cluster, r) ==
    IF r.stablecoinIndex # 0
    THEN Response(NOT_FOUND,
                  [success |-> FALSE,
                   message |-> "Stablecoin with the specified index not found"])
    ELSE IF r.depositAmount <= 0
         THEN Response(BAD_REQUEST,
                       [success |-> FALSE,
                        message |-> "Invalid request data: depositAmount must be positive"])
         ELSE Response(OK, [success |-> TRUE,
                            data |-> [transaction |-> SimulatedTx]])

generate_mint_transaction(cluster, r) ==
    IF r.depositAmount <= 0
    THEN Response(BAD_REQUEST,
                  [success |-> FALSE,
                   message |-> "Invalid request data: depositAmount must be positive"])
    ELSE IF r.stablecoinIndex # 0
         THEN Response(NOT_FOUND,
                       [success |-> FALSE,
                        message |-> "Stablecoin with the specified index not found"])
         ELSE Response(OK, [success |-> TRUE,
                            data |-> [transaction |-> SimulatedTx]])

(***************************************************************************)
(* stablecoin/generate_burn_transaction.rs                                  *)
(***************************************************************************)
BurnRequest(stablecoin_index, deposit_amount, signer, minimum_received, collateral_mint) ==
    [stablecoin_index |-> stablecoin_index, deposit_amount |-> deposit_amount,
     signer |-> signer, minimum_received |-> minimum_received,
     collateral_mint |-> collateral_mint]

\* mutant: the index validation is missing
generate_burn_transaction_no_index_check(cluster, r) ==
    IF r.deposit_amount <= 0
    THEN Response(BAD_REQUEST,
                  [success |-> FALSE,
                   message |-> "Invalid request data: depositAmount must be positive"])
    ELSE Response(OK, [success |-> TRUE,
                       data |-> [transaction |-> SimulatedTx]])

\* mutant: an error envelope that still carries the transaction
generate_burn_transaction_data_on_error(cluster, r) ==
    IF r.deposit_amount <= 0
    THEN Response(BAD_REQUEST,
                  [success |-> FALSE,
                   message |-> "Invalid request data: depositAmount must be positive",
                   data |-> [transaction |-> SimulatedTx]])
    ELSE IF r.stablecoin_index # 0
         THEN Response(NOT_FOUND,
                       [success |-> FALSE,
                        message |-> "Stablecoin with the specified index not found"])
         ELSE Response(OK, [success |-> TRUE,
                            data |-> [transaction |-> SimulatedTx]])

generate_burn_transaction(cluster, r) ==
    IF r.deposit_amount <= 0
    THEN Response(BAD_REQUEST,
                  [success |-> FALSE,
                   message |-> "Invalid request data: depositAmount must be positive"])
    ELSE IF r.stablecoin_index # 0
         THEN Response(NOT_FOUND,
                       [success |-> FALSE,
                        message |-> "Stablecoin with the specified index not found"])
         ELSE Response(OK, [success |-> TRUE,
                            data |-> [transaction |-> SimulatedTx]])

(***************************************************************************)
(* stablecoin/get_realtime_exchange_rate.rs                                 *)
(***************************************************************************)
\* mutant: an unknown index is answered 404 with the not-found message
get_realtime_exchange_rate_not_found(index) ==
    IF index # 0
    THEN Response(NOT_FOUND,
                  [success |-> FALSE,
                   message |-> "Stablecoin with the specified index not found"])
    ELSE Response(OK, [success |-> TRUE,
                       data |-> [base |-> 1016858791, receipt |-> 1016858791]])

get_realtime_exchange_rate(index) ==
    IF index # 0
    THEN Response(BAD_REQUEST,
                  [success |-> FALSE,
                   message |-> "Invalid request data: depositAmount must be positive"])
    ELSE Response(OK, [success |-> TRUE,
                       data |-> [base |-> 1016858791, receipt |-> 1016858791]])

(***************************************************************************)
(* stablecoin/get_specific_apy.rs                                           *)
(***************************************************************************)
\* an f64 literal m * 10^(-scale), as serde_json prints it
Decimal(m, scale) == [mantissa |-> m, scale |-> scale]

\* Json(..) alone is a 200 response
get_specific_apy(stablecoin) ==
    Response(OK, [stablecoin |-> stablecoin, apy |-> Decimal(2, 2)])

(***************************************************************************)
(* stablecoin/get_historical_apy.rs                                         *)
(***************************************************************************)
HistoricalApyQuery(days) == [days |-> days]

\* Option::unwrap_or
unwrap_or(opt, default) == IF opt.some THEN opt.value ELSE default

\* mutant: an absent days parameter defaults to 0
get_historical_apy_default_zero(index, query) ==
    LET days == unwrap_or(query.days, 0) IN
    IF days < 1
    THEN Response(BAD_REQUEST,
                  [success |-> FALSE,
                   message |-> "Invalid request data: depositAmount must be positive"])
    ELSE Response(OK, [success |-> TRUE,
                       data |-> [index |-> index, apy |-> Decimal(525, 2),
                                 timestamp |-> "2023-11-07T05:31:56Z"]])

get_historical_apy(index, query) ==
    LET days == unwrap_or(query.days, 365) IN
    IF days < 1
    THEN Response(BAD_REQUEST,
                  [success |-> FALSE,
                   message |-> "Invalid request data: depositAmount must be positive"])
    ELSE Response(OK, [success |-> TRUE,
                       data |-> [index |-> index, apy |-> Decimal(525, 2),
                                 timestamp |-> "2023-11-07T05:31:56Z"]])

(***************************************************************************)
(* stablecoin/get_historical_exchange_rates.rs                              *)
(***************************************************************************)
HistoricalQuery(stablecoin, days) == [stablecoin |-> stablecoin, days |-> days]

\* mutant: the simulated records are listed newest first
get_historical_exchange_rates_newest_first(query) ==
    Response(OK, [success |-> TRUE,
                  data |-> << [id |-> 104137, stablecoin |-> query.stablecoin,
                               base_usd_value_bps |-> 1016728666,
                               timestamp |-> "2025-12-18T17:47:08.161Z",
                               receipt_usd_value_bps |-> 1016728667],
                              [id |-> 104135, stablecoin |-> query.stablecoin,
                               base_usd_value_bps |-> 1016733625,
                               timestamp |-> "2025-12-18T17:46:10.274Z",
                               receipt_usd_value_bps |-> 1016733625] >>])

get_historical_exchange_rates(query) ==
    Response(OK, [success |-> TRUE,
                  data |-> << [id |-> 104135, stablecoin |-> query.stablecoin,
                               base_usd_value_bps |-> 1016733625,
                               timestamp |-> "2025-12-18T17:46:10.274Z",
                               receipt_usd_value_bps |-> 1016733625],
                              [id |-> 104137, stablecoin |-> query.stablecoin,
                               base_usd_value_bps |-> 1016728666,
                               timestamp |-> "2025-12-18T17:47:08.161Z",
                               receipt_usd_value_bps |-> 1016728667] >>])

(***************************************************************************)
(* stablecoin: the handlers without parameters                              *)
(***************************************************************************)
get_available_stablecoins ==
    Response(OK, [success |-> TRUE, data |-> << [index |-> 0, name |-> "USDC+"] >>])

\* mutant: the remaining capacity was not updated with the supply
get_supply_caps_stale_remaining ==
    Response(OK, [success |-> TRUE,
                  data |-> << [index |-> 0, supplyCap |-> 1000000000,
                               currentSupply |-> 500000000,
                               remainingCapacity |-> 600000000,
                               utilizationPercentage |-> 50] >>])

\* mutant: the utilization is reported in per mille
get_supply_caps_per_mille ==
    Response(OK, [success |-> TRUE,
                  data |-> << [index |-> 0, supplyCap |-> 1000000000,
                               currentSupply |-> 500000000,
                               remainingCapacity |-> 500000000,
                               utilizationPercentage |-> 500] >>])

get_supply_caps ==
    Response(OK, [success |-> TRUE,
                  data |-> << [index |-> 0, supplyCap |-> 1000000000,
                               currentSupply |-> 500000000,
                               remainingCapacity |-> 500000000,
                               utilizationPercentage |-> 50] >>])

get_all_apy ==
    Response(OK, [success |-> TRUE,
                  data |-> << [index |-> 0, apy |-> 224,
                               timestamp |-> "2025-12-19T16:55:42.407Z"] >>])

get_latest_exchange_rates ==
    Response(OK, [success |-> TRUE,
                  data |-> << [id |-> 105511, stablecoin |-> 0,
                               base_usd_value_bps |-> 1016789908,
                               timestamp |-> "2025-12-19T17:04:08.502Z",
                               receipt_usd_value_bps |-> 1016791576] >>])

(***************************************************************************)
(* health/health_check.rs                                                   *)
(***************************************************************************)
\* now is Utc::now(), formatted
health_check(now) ==
    Response(OK, [success |-> TRUE, message |-> "API is running", timestamp |-> now])

(***************************************************************************)
(* integration: the transaction stubs                                       *)
(***************************************************************************)
ClaimReq(claimant) == [claimant |-> claimant]
RedeemReq(amount, holder) == [amount |-> amount, holder |-> holder]
IntMintReq(amount, recipient) == [amount |-> amount, recipient |-> recipient]

generate_claim_tx(st, payload) ==
    Response(OK, [tx |-> "0xclaimtx", claimant |-> payload.claimant])

generate_redemption_tx(st, payload) ==
    Response(OK, [tx |-> "0xintredeem", amount |-> payload.amount,
                  holder |-> payload.holder])

generate_integration_mint_tx(st, payload) ==
    Response(OK, [tx |-> "0xintmint", amount |-> payload.amount,
                  recipient |-> payload.recipient])

(***************************************************************************)
(* stablecoin: the internal-error handlers, one per file                    *)
(***************************************************************************)
get_mint_redeem_quote_error ==
    Response(INTERNAL_SERVER_ERROR,
             [success |-> FALSE, message |-> "Internal server error"])

generate_mint_transaction_error ==
    Response(INTERNAL_SERVER_ERROR,
             [success |-> FALSE, message |-> "Internal server error"])

generate_burn_transaction_error ==
    Response(INTERNAL_SERVER_ERROR,
             [success |-> FALSE, message |-> "Internal server error"])

get_realtime_exchange_rate_error ==
    Response(INTERNAL_SERVER_ERROR,
             [success |-> FALSE, message |-> "Internal server error"])

get_historical_apy_error ==
    Response(INTERNAL_SERVER_ERROR,
             [success |-> FALSE, message |-> "Internal server error"])

get_historical_exchange_rates_error ==
    Response(INTERNAL_SERVER_ERROR,
             [success |-> FALSE, message |-> "Internal server error"])

get_available_stablecoins_error ==
    Response(INTERNAL_SERVER_ERROR,
             [success |-> FALSE, message |-> "Internal server error"])

\* mutant: the body also carries the cause of the error
get_supply_caps_error_with_cause ==
    Response(INTERNAL_SERVER_ERROR,
             [success |-> FALSE, message |-> "Internal server error",
              error |-> "connection refused: db:5432"])

get_supply_caps_error ==
    Response(INTERNAL_SERVER_ERROR,
             [success |-> FALSE, message |-> "Internal server error"])

get_all_apy_error ==
    Response(INTERNAL_SERVER_ERROR,
             [success |-> FALSE, message |-> "Internal server error"])

get_latest_exchange_rates_error ==
    Response(INTERNAL_SERVER_ERROR,
             [success |-> FALSE, message |-> "Internal server error"])

\* get_all_apy.rs: the handler of the case that no APY data exists
get_all_apy_not_found ==
    Response(NOT_FOUND,
             [success |-> FALSE,
              message |-> "Invalid request data: depositAmount must be positive"])

\* i64 deposit amounts on the whole range: the top of the range, small
\* amounts, zero and i64::MIN
WideAmounts ==
    {I64(FALSE, WideSub(I64_MAX, Wide(k))) : k \in 0..MaxBelowMax}
    \cup {I64(FALSE, Wide(n)) : n \in {0, 1, 999, 1000, 1000000}}
    \cup {I64(TRUE, Wide(100)), I64(TRUE, WideAdd(I64_MAX, Wide(1)))}

(***************************************************************************)
(* main.rs: the shared application state has no fields                      *)
(***************************************************************************)
AppState == <<>>

(***************************************************************************)
(* Spec: direct calls of the handlers                                       *)
(***************************************************************************)
NoCall == [fn |-> "none"]
NoRet == [status |-> 0, body |-> <<>>]

Init ==
    /\ call = NoCall
    /\ ret = NoRet
    /\ pc = [s \in Slots |-> "idle"]
    /\ req = [s \in Slots |-> NoCall]
    /\ resp = [s \in Slots |-> NoRet]
    /\ state = AppState

Call_get_mint_redeem_quote ==
    /\ call = NoCall
    /\ \E quote_type \in QuoteTypes, i \in Indices, a \in Amounts :
        /\ call' = [fn |-> "get_mint_redeem_quote", quote_type |-> quote_type,
                    req |-> QuoteRequest(i, a)]
        /\ ret' = get_mint_redeem_quote(quote_type, QuoteRequest(i, a))
        /\ UNCHANGED <<pc, req, resp, state>>

Call_get_mint_redeem_quote_i64 ==
    /\ call = NoCall
    /\ \E quote_type \in QuoteTypes, i \in Indices, a \in WideAmounts :
       \E outcome \in get_mint_redeem_quote_i64(quote_type, QuoteRequest(i, a)) :
        /\ call' = [fn |-> "get_mint_redeem_quote_i64", quote_type |-> quote_type,
                    req |-> QuoteRequest(i, a)]
        /\ ret' = outcome
        /\ UNCHANGED <<pc, req, resp, state>>

Call_generate_mint_transaction ==
    /\ call = NoCall
    /\ \E c \in Clusters, i \in Indices, a \in TxAmounts, sg \in Signers,
          m \in MinimumReceived, cm \in CollateralMints :
        /\ call' = [fn |-> "generate_mint_transaction", cluster |-> ClusterQuery(c),
                    req |-> MintRequest(i, a, sg, m, cm)]
        /\ ret' = generate_mint_transaction(ClusterQuery(c), MintRequest(i, a, sg, m, cm))
        /\ UNCHANGED <<pc, req, resp, state>>

Call_generate_burn_transaction ==
    /\ call = NoCall
    /\ \E c \in Clusters, i \in Indices, a \in TxAmounts, sg \in Signers,
          m \in MinimumReceived, cm \in CollateralMints :
        /\ call' = [fn |-> "generate_burn_transaction", cluster |-> ClusterQuery(c),
                    req |-> BurnRequest(i, a, sg, m, cm)]
        /\ ret' = generate_burn_transaction(ClusterQuery(c), BurnRequest(i, a, sg, m, cm))
        /\ UNCHANGED <<pc, req, resp, state>>

Call_get_realtime_exchange_rate ==
    /\ call = NoCall
    /\ \E i \in Indices :
        /\ call' = [fn |-> "get_realtime_exchange_rate", index |-> i]
        /\ ret' = get_realtime_exchange_rate(i)
        /\ UNCHANGED <<pc, req, resp, state>>

Call_get_specific_apy ==
    /\ call = NoCall
    /\ \E p \in PathStrings :
        /\ call' = [fn |-> "get_specific_apy", stablecoin |-> p]
        /\ ret' = get_specific_apy(p)
        /\ UNCHANGED <<pc, req, resp, state>>

Call_get_historical_apy ==
    /\ call = NoCall
    /\ \E i \in Indices, d \in OptDays :
        /\ call' = [fn |-> "get_historical_apy", index |-> i,
                    query |-> HistoricalApyQuery(d)]
        /\ ret' = get_historical_apy(i, HistoricalApyQuery(d))
        /\ UNCHANGED <<pc, req, resp, state>>

Call_get_historical_exchange_rates ==
    /\ call = NoCall
    /\ \E i \in Indices, d \in Days :
        /\ call' = [fn |-> "get_historical_exchange_rates",
                    query |-> HistoricalQuery(i, d)]
        /\ ret' = get_historical_exchange_rates(HistoricalQuery(i, d))
        /\ UNCHANGED <<pc, req, resp, state>>

Call_get_available_stablecoins ==
    /\ call = NoCall
    /\ call' = [fn |-> "get_available_stablecoins"]
    /\ ret' = get_available_stablecoins
    /\ UNCHANGED <<pc, req, resp, state>>

Call_get_supply_caps ==
    /\ call = NoCall
    /\ call' = [fn |-> "get_supply_caps"]
    /\ ret' = get_supply_caps
    /\ UNCHANGED <<pc, req, resp, state>>

Call_get_all_apy ==
    /\ call = NoCall
    /\ call' = [fn |-> "get_all_apy"]
    /\ ret' = get_all_apy
    /\ UNCHANGED <<pc, req, resp, state>>

Call_get_latest_exchange_rates ==
    /\ call = NoCall
    /\ call' = [fn |-> "get_latest_exchange_rates"]
    /\ ret' = get_latest_exchange_rates
    /\ UNCHANGED <<pc, req, resp, state>>

Call_health_check ==
    /\ call = NoCall
    /\ \E now \in Timestamps :
        /\ call' = [fn |-> "health_check"]
        /\ ret' = health_check(now)
        /\ UNCHANGED <<pc, req, resp, state>>

Call_generate_claim_tx ==
    /\ call = NoCall
    /\ \E c \in Parties :
        /\ call' = [fn |-> "generate_claim_tx", payload |-> ClaimReq(c)]
        /\ ret' = generate_claim_tx(state, ClaimReq(c))
        /\ UNCHANGED <<pc, req, resp, state>>

Call_generate_redemption_tx ==
    /\ call = NoCall
    /\ \E a \in IntegrationAmounts, h \in Parties :
        /\ call' = [fn |-> "generate_redemption_tx", payload |-> RedeemReq(a, h)]
        /\ ret' = generate_redemption_tx(state, RedeemReq(a, h))
        /\ UNCHANGED <<pc, req, resp, state>>

Call_generate_integration_mint_tx ==
    /\ call = NoCall
    /\ \E a \in IntegrationAmounts, h \in Parties :
        /\ call' = [fn |-> "generate_integration_mint_tx", payload |-> IntMintReq(a, h)]
        /\ ret' = generate_integration_mint_tx(state, IntMintReq(a, h))
        /\ UNCHANGED <<pc, req, resp, state>>

Call_get_mint_redeem_quote_error ==
    /\ call = NoCall
    /\ call' = [fn |-> "get_mint_redeem_quote_error"]
    /\ ret' = get_mint_redeem_quote_error
    /\ UNCHANGED <<pc, req, resp, state>>

Call_generate_mint_transaction_error ==
    /\ call = NoCall
    /\ call' = [fn |-> "generate_mint_transaction_error"]
    /\ ret' = generate_mint_transaction_error
    /\ UNCHANGED <<pc, req, resp, state>>

Call_generate_burn_transaction_error ==
    /\ call = NoCall
    /\ call' = [fn |-> "generate_burn_transaction_error"]
    /\ ret' = generate_burn_transaction_error
    /\ UNCHANGED <<pc, req, resp, state>>

Call_get_realtime_exchange_rate_error ==
    /\ call = NoCall
    /\ call' = [fn |-> "get_realtime_exchange_rate_error"]
    /\ ret' = get_realtime_exchange_rate_error
    /\ UNCHANGED <<pc, req, resp, state>>

Call_get_historical_apy_error ==
    /\ call = NoCall
    /\ call' = [fn |-> "get_historical_apy_error"]
    /\ ret' = get_historical_apy_error
    /\ UNCHANGED <<pc, req, resp, state>>

Call_get_historical_exchange_rates_error ==
    /\ call = NoCall
    /\ call' = [fn |-> "get_historical_exchange_rates_error"]
    /\ ret' = get_historical_exchange_rates_error
    /\ UNCHANGED <<pc, req, resp, state>>

Call_get_available_stablecoins_error ==
    /\ call = NoCall
    /\ call' = [fn |-> "get_available_stablecoins_error"]
    /\ ret' = get_available_stablecoins_error
    /\ UNCHANGED <<pc, req, resp, state>>

Call_get_supply_caps_error ==
    /\ call = NoCall
    /\ call' = [fn |-> "get_supply_caps_error"]
    /\ ret' = get_supply_caps_error
    /\ UNCHANGED <<pc, req, resp, state>>

Call_get_all_apy_error ==
    /\ call = NoCall
    /\ call' = [fn |-> "get_all_apy_error"]
    /\ ret' = get_all_apy_error
    /\ UNCHANGED <<pc, req, resp, state>>

Call_get_latest_exchange_rates_error ==
    /\ call = NoCall
    /\ call' = [fn |-> "get_latest_exchange_rates_error"]
    /\ ret' = get_latest_exchange_rates_error
    /\ UNCHANGED <<pc, req, resp, state>>

Call_get_all_apy_not_found ==
    /\ call = NoCall
    /\ call' = [fn |-> "get_all_apy_not_found"]
    /\ ret' = get_all_apy_not_found
    /\ UNCHANGED <<pc, req, resp, state>>

\* the caller has read the response; the envelope is dropped, nothing persists
Return ==
    /\ call # NoCall
    /\ call' = NoCall
    /\ ret' = NoRet
    /\ UNCHANGED <<pc, req, resp, state>>

Next ==
    \/ Call_get_mint_redeem_quote
    \/ Call_get_mint_redeem_quote_i64
    \/ Call_generate_mint_transaction
    \/ Call_generate_burn_transaction
    \/ Call_get_realtime_exchange_rate
    \/ Call_get_specific_apy
    \/ Call_get_historical_apy
    \/ Call_get_historical_exchange_rates
    \/ Call_get_available_stablecoins
    \/ Call_get_supply_caps
    \/ Call_get_all_apy
    \/ Call_get_latest_exchange_rates
    \/ Call_health_check
    \/ Call_generate_claim_tx
    \/ Call_generate_redemption_tx
    \/ Call_generate_integration_mint_tx
    \/ Call_get_mint_redeem_quote_error
    \/ Call_generate_mint_transaction_error
    \/ Call_generate_burn_transaction_error
    \/ Call_get_realtime_exchange_rate_error
    \/ Call_get_historical_apy_error
    \/ Call_get_historical_exchange_rates_error
    \/ Call_get_available_stablecoins_error
    \/ Call_get_supply_caps_error
    \/ Call_get_all_apy_error
    \/ Call_get_latest_exchange_rates_error
    \/ Call_get_all_apy_not_found
    \/ Return

Spec == Init /\ [][Next]_vars

(***************************************************************************)
(* SpecServe: the server of main.rs                                         *)
(***************************************************************************)
\* the requests the server receives: quote, transaction generation and
\* historical exchange rates; the path parameter of a route is a field of
\* the request
ServeQuoteTypes == {"mint", "redeem", "invalid"}
ServeIndices == {0, 99}
ServeAmounts == {-100, 1000, 1000000}

ServeRequests ==
    {[route |-> "/stablecoins/quote", quote_type |-> t, body |-> QuoteRequest(i, a)] :
        t \in ServeQuoteTypes, i \in ServeIndices, a \in ServeAmounts}
    \cup
    {[route |-> "/stablecoins/mint/tx", cluster |-> ClusterQuery(c),
      body |-> MintRequest(i, a, "test_signer", 999000, None)] :
        c \in {None, Some("mainnet")}, i \in ServeIndices, a \in {-100, 1000000}}
    \cup
    {[route |-> "/stablecoins/burn/tx", cluster |-> ClusterQuery(c),
      body |-> BurnRequest(i, a, "test_signer", 999000, Some("test_mint"))] :
        c \in {None, Some("mainnet")}, i \in ServeIndices, a \in {-100, 1000000}}
    \cup
    {[route |-> "/integrations/redeem/tx", body |-> RedeemReq(a, "test_holder")] :
        a \in {-100, 1000000}}
    \cup
    {[route |-> "/stablecoins/stablecoin/:index/exchange-rates/historical",
      index |-> p, query |-> HistoricalQuery(i, 1)] :
        p \in ServeIndices, i \in ServeIndices}

\* the routers of stablecoin/mod.rs and integration/mod.rs, nested in main.rs
router(st, r) ==
    CASE r.route = "/stablecoins/quote" -> get_mint_redeem_quote(r.quote_type, r.body)
      [] r.route = "/stablecoins/mint/tx" -> generate_mint_transaction(r.cluster, r.body)
      [] r.route = "/stablecoins/burn/tx" -> generate_burn_transaction(r.cluster, r.body)
      [] r.route = "/integrations/redeem/tx" -> generate_redemption_tx(st, r.body)
      [] r.route = "/stablecoins/stablecoin/:index/exchange-rates/historical" ->
            get_historical_exchange_rates(r.query)

\* a connection delivers a request
Receive(s) ==
    /\ pc[s] = "idle"
    /\ \E r \in ServeRequests :
        /\ req' = [req EXCEPT ![s] = r]
        /\ pc' = [pc EXCEPT ![s] = "received"]
        /\ UNCHANGED <<call, ret, resp, state>>

\* mutant: the handler is given the request of the first busy connection
Handle_shared_request(s) ==
    /\ pc[s] = "received"
    /\ resp' = [resp EXCEPT ![s] =
                  router(state, req[CHOOSE t \in Slots : pc[t] # "idle"])]
    /\ pc' = [pc EXCEPT ![s] = "handled"]
    /\ UNCHANGED <<call, ret, req, state>>

\* the task of the connection runs the routed handler; a handler has no
\* await point, it runs to completion on its own arguments
Handle(s) ==
    /\ pc[s] = "received"
    /\ resp' = [resp EXCEPT ![s] = router(state, req[s])]
    /\ pc' = [pc EXCEPT ![s] = "handled"]
    /\ UNCHANGED <<call, ret, req, state>>

\* the response is written to the connection
Send(s) ==
    /\ pc[s] = "handled"
    /\ pc' = [pc EXCEPT ![s] = "idle"]
    /\ req' = [req EXCEPT ![s] = NoCall]
    /\ resp' = [resp EXCEPT ![s] = NoRet]
    /\ UNCHANGED <<call, ret, state>>

NextServe == \E s \in Slots : Receive(s) \/ Handle(s) \/ Send(s)

SpecServe == Init /\ [][NextServe]_vars

(***************************************************************************)
(* Properties                                                               *)
(***************************************************************************)
IsQuoteCall == call.fn = "get_mint_redeem_quote"
IsTxCall == call.fn \in {"generate_mint_transaction", "generate_burn_transaction"}

\* the amount and the index of a mint or burn transaction call
TxAmount == IF call.fn = "generate_mint_transaction"
            THEN call.req.depositAmount ELSE call.req.deposit_amount
TxIndex == IF call.fn = "generate_mint_transaction"
           THEN call.req.stablecoinIndex ELSE call.req.stablecoin_index

InvalidAmountResponse ==
    Response(400, [success |-> FALSE,
                   message |-> "Invalid request data: depositAmount must be positive"])
AssetNotFoundResponse ==
    Response(404, [success |-> FALSE,
                   message |-> "Stablecoin with the specified index not found"])

\* C1: for every depositAmount > 0 and quote type mint or redeem the quote
\* is 200 with data = net, where fee = floor(depositAmount * 10 / 10000) and
\* net = depositAmount - fee, so fee + net = depositAmount.
C1_QuoteIsAmountMinusFee ==
    (IsQuoteCall /\ call.req.depositAmount > 0 /\ call.quote_type \in {"mint", "redeem"})
    => LET amount == call.req.depositAmount
           fee == (amount * 10) \div 10000
           net == amount - fee
       IN /\ ret.status = 200
          /\ DOMAIN ret.body = {"success", "data"}
          /\ ret.body.success = TRUE
          /\ ret.body.data = net
          /\ fee + ret.body.data = amount

\* the test's case: 1_000_000 gives fee 1000 and net 999000
C1_Witness ==
    /\ IsQuoteCall
    /\ call.quote_type = "redeem"
    /\ call.req.depositAmount = 1000000
    /\ ret.status = 200
    /\ ret.body.data = 999000

\* C2: for every depositAmount <= 0, every quote type and every index, the
\* quote is 400 with the InvalidAmount envelope and carries no quote value.
C2_NonPositiveAmountRejected ==
    (IsQuoteCall /\ call.req.depositAmount <= 0)
    => /\ ret = InvalidAmountResponse
       /\ "data" \notin DOMAIN ret.body

C2_Witness ==
    /\ IsQuoteCall
    /\ call.req.depositAmount = 0
    /\ call.req.stablecoinIndex = 99
    /\ call.quote_type = "invalid"
    /\ ret.status = 400

\* C3 (as claimed): a quote request with depositAmount > 0 and an index
\* other than 0 gets 404 "Stablecoin with the specified index not found".
C3_QuoteUnknownIndexNotFound ==
    (IsQuoteCall /\ call.req.depositAmount > 0 /\ call.req.stablecoinIndex # 0)
    => ret = AssetNotFoundResponse

\* the per-asset read handlers and the asset index of a call of one
IsPerAssetReadCall ==
    call.fn \in {"get_realtime_exchange_rate", "get_specific_apy",
                 "get_historical_apy", "get_historical_exchange_rates"}
ReadIndexIsKnown ==
    CASE call.fn = "get_realtime_exchange_rate" -> call.index = 0
      [] call.fn = "get_specific_apy" -> call.stablecoin = "0"
      [] call.fn = "get_historical_apy" -> call.index = 0
      [] call.fn = "get_historical_exchange_rates" -> call.query.stablecoin = 0

\* C4 (as claimed): for every index other than 0 every per-asset read
\* handler answers 404 with an error envelope and no data.
C4_ReadUnknownIndexNotFound ==
    (IsPerAssetReadCall /\ ~ReadIndexIsKnown)
    => /\ ret.status = 404
       /\ "success" \in DOMAIN ret.body
       /\ ret.body.success = FALSE
       /\ "message" \in DOMAIN ret.body
       /\ "data" \notin DOMAIN ret.body

\* C5: mint and burn transaction requests with depositAmount > 0 and
\* index # 0 get 404 "Stablecoin with the specified index not found" and
\* no transaction.
C5_TxUnknownIndexNotFound ==
    (IsTxCall /\ TxAmount > 0 /\ TxIndex # 0)
    => /\ ret = AssetNotFoundResponse
       /\ "data" \notin DOMAIN ret.body

C5_Witness ==
    /\ call.fn = "generate_burn_transaction"
    /\ TxAmount = 1000000
    /\ TxIndex = 99
    /\ ret.status = 404

\* C6: in mint and burn transaction generation the amount rule comes first:
\* depositAmount <= 0 gets the 400 InvalidAmount envelope even when the
\* index is unknown, and 404 is returned only when the amount is positive.
C6_AmountCheckedBeforeIndex ==
    IsTxCall
    => /\ (TxAmount <= 0 => ret = InvalidAmountResponse)
       /\ (ret.status = 404 => TxAmount > 0)

C6_Witness ==
    /\ call.fn = "generate_mint_transaction"
    /\ TxAmount <= 0
    /\ TxIndex # 0
    /\ ret.status = 400

\* C7: mint and burn transaction generation return 200 with
\* {success: true, data: {transaction: <string>}} if and only if
\* depositAmount > 0 and the index is 0; every other request gets an error
\* envelope without a data field.
C7_TxSuccessIffValid ==
    IsTxCall
    => IF TxAmount > 0 /\ TxIndex = 0
       THEN /\ ret.status = 200
            /\ DOMAIN ret.body = {"success", "data"}
            /\ ret.body.success = TRUE
            /\ DOMAIN ret.body.data = {"transaction"}
            /\ ret.body.data.transaction \in STRING
       ELSE /\ ret.status # 200
            /\ DOMAIN ret.body = {"success", "message"}
            /\ ret.body.success = FALSE

C7_Witness ==
    /\ call.fn = "generate_burn_transaction"
    /\ TxAmount = 1
    /\ TxIndex = 0
    /\ ret.status = 200
    /\ ret.body.data.transaction = SimulatedTx

\* C10 (as claimed): every response of every endpoint carries a boolean
\* success; success is true exactly when the status is 200, and the body
\* then carries data; every other response is {success: false, message}
\* with status 400, 404 or 500.
C10_UniformEnvelope ==
    call # NoCall
    => /\ "success" \in DOMAIN ret.body
       /\ ret.body.success \in BOOLEAN
       /\ (ret.body.success <=> ret.status = 200)
       /\ (ret.body.success => "data" \in DOMAIN ret.body)
       /\ (~ret.body.success => /\ DOMAIN ret.body = {"success", "message"}
                                /\ ret.status \in {400, 404, 500})

(***************************************************************************)
(* Properties of the server                                                 *)
(***************************************************************************)
IsQuoteRequest(r) == r.route = "/stablecoins/quote"

AloneResponse(r) ==
    CASE r.route = "/stablecoins/quote" -> get_mint_redeem_quote(r.quote_type, r.body)
      [] r.route = "/stablecoins/mint/tx" -> generate_mint_transaction(r.cluster, r.body)
      [] r.route = "/stablecoins/burn/tx" -> generate_burn_transaction(r.cluster, r.body)
      [] r.route = "/integrations/redeem/tx" -> generate_redemption_tx(AppState, r.body)
      [] r.route = "/stablecoins/stablecoin/:index/exchange-rates/historical" ->
            get_historical_exchange_rates(r.query)

InvalidTypeResponse ==
    Response(404, [success |-> FALSE, message |-> "Invalid request type"])

\* C11: for every depositAmount > 0 and every quote type other than mint
\* and redeem the quote is 404 {success: false, message: "Invalid request
\* type"} and carries no quote.
C11_OtherTypeNotFound ==
    (IsQuoteCall /\ call.req.depositAmount > 0
     /\ call.quote_type \notin {"mint", "redeem"})
    => /\ ret = InvalidTypeResponse
       /\ "data" \notin DOMAIN ret.body

\* the test's case: type "invalid", amount 1_000_000
C11_Witness ==
    /\ IsQuoteCall
    /\ call.quote_type = "invalid"
    /\ call.req.depositAmount = 1000000
    /\ ret.status = 404

OtherType(t) == IF t = "mint" THEN "redeem" ELSE "mint"

\* C13: for every stablecoinIndex and depositAmount the mint quote and the
\* redeem quote of the same request have the same status and the same body.
C13_MintEqualsRedeem ==
    (IsQuoteCall /\ call.quote_type \in {"mint", "redeem"})
    => ret = get_mint_redeem_quote(OtherType(call.quote_type), call.req)

\* a mint quote with a fee, which the redeem quote must repeat
C13_Witness ==
    /\ IsQuoteCall
    /\ call.quote_type = "mint"
    /\ call.req.depositAmount = 2000
    /\ ret.status = 200
    /\ ret.body.data = 1998

(***************************************************************************)
(* Properties of the required fields and of the read handlers               *)
(***************************************************************************)
\* C15 (as claimed): mint and burn transaction generation reject, with a
\* client error and no transaction, every request whose signer is empty.
C15_EmptySignerRejected ==
    (IsTxCall /\ call.req.signer = "")
    => /\ ret.status \in {400, 404}
       /\ ret.body.success = FALSE
       /\ "data" \notin DOMAIN ret.body

IsRatesCall == call.fn = "get_historical_exchange_rates"

\* C16 (as claimed): get_historical_exchange_rates with days = 0 fails
\* with an error envelope and no records; records are returned only when
\* days >= 1.
C16_ZeroDaysRejected ==
    IsRatesCall
    => /\ (call.query.days = 0 => /\ ret.status # 200
                                  /\ ret.body.success = FALSE
                                  /\ "data" \notin DOMAIN ret.body)
       /\ ("data" \in DOMAIN ret.body => call.query.days >= 1)

IsApyHistoryCall == call.fn = "get_historical_apy"

\* C17: get_historical_apy returns 400 {success: false, message: "Invalid
\* request data: depositAmount must be positive"} exactly when days is
\* given and less than 1; with days absent (default 365) and with every
\* days >= 1 it returns 200 with a data record.
C17_ApyHistoryDays ==
    IsApyHistoryCall
    => IF call.query.days.some /\ call.query.days.value < 1
       THEN ret = InvalidAmountResponse
       ELSE /\ ret.status = 200
            /\ DOMAIN ret.body = {"success", "data"}
            /\ ret.body.success = TRUE
            /\ DOMAIN ret.body.data = {"index", "apy", "timestamp"}

\* days is absent and the request succeeds
C17_Witness ==
    /\ IsApyHistoryCall
    /\ ~call.query.days.some
    /\ ret.status = 200
    /\ ret.body.data.index = call.index

IsRealtimeCall == call.fn = "get_realtime_exchange_rate"

\* C18: get_realtime_exchange_rate returns 200 {success: true,
\* data: {base, receipt}} when index = 0 and, for every index # 0, 400
\* {success: false, message: "Invalid request data: depositAmount must be
\* positive"}.
C18_RealtimeRateByIndex ==
    IsRealtimeCall
    => IF call.index = 0
       THEN /\ ret.status = 200
            /\ DOMAIN ret.body = {"success", "data"}
            /\ ret.body.success = TRUE
            /\ DOMAIN ret.body.data = {"base", "receipt"}
       ELSE ret = InvalidAmountResponse

\* the test's case: index 99
C18_Witness ==
    /\ IsRealtimeCall
    /\ call.index = 99
    /\ ret.status = 400

IsSupplyCapsCall == call.fn = "get_supply_caps"

\* C19: every supply-cap record returned by get_supply_caps satisfies
\* remainingCapacity + currentSupply = supplyCap.
C19_RemainingPlusCurrentIsCap ==
    IsSupplyCapsCall
    => \A i \in DOMAIN ret.body.data :
          ret.body.data[i].remainingCapacity + ret.body.data[i].currentSupply
              = ret.body.data[i].supplyCap

\* the record of USDC+ is returned
C19_Witness ==
    /\ IsSupplyCapsCall
    /\ ret.status = 200
    /\ Len(ret.body.data) = 1
    /\ ret.body.data[1].supplyCap = 1000000000

(***************************************************************************)
(* Numerical properties on the full integer ranges                          *)
(***************************************************************************)
IsWideQuoteCall == call.fn = "get_mint_redeem_quote_i64"

\* C14: for every depositAmount in 1..=i64::MAX and quote type mint or
\* redeem the quote is 200 with a quote; depositAmount - depositAmount/1000
\* does not overflow i64 (the response carries the exact difference, which
\* lies in 1..=depositAmount) and no error or panic is produced.
C14_QuoteTotalOnI64 ==
    (IsWideQuoteCall /\ i64_is_positive(call.req.depositAmount)
     /\ call.quote_type \in {"mint", "redeem"})
    => LET a == call.req.depositAmount.mag IN
       /\ ret # Panicked
       /\ ret.status = 200
       /\ DOMAIN ret.body = {"success", "data"}
       /\ ret.body.success = TRUE
       /\ ret.body.data = I64(FALSE, WideSub(a, WideDivBase(a)))
       /\ i64_is_positive(ret.body.data)
       /\ WideLeq(ret.body.data.mag, a)

\* i64::MAX is quoted 9_214_148_664_817_921_032
C14_Witness ==
    /\ IsWideQuoteCall
    /\ call.quote_type = "mint"
    /\ call.req.depositAmount = I64(FALSE, I64_MAX)
    /\ ret.status = 200
    /\ ret.body.data.mag = <<32, 921, 817, 664, 148, 214, 9, 0>>

\* C20: every supply-cap record has utilizationPercentage =
\* currentSupply * 100 / supplyCap (integer division) and
\* 0 <= utilizationPercentage <= 100.
C20_UtilizationIsPercentage ==
    IsSupplyCapsCall
    => \A i \in DOMAIN ret.body.data :
          LET rec == ret.body.data[i]
              u == rec.utilizationPercentage
              cur100 == WideMulSmall(Wide(rec.currentSupply), 100)
          IN /\ 0 <= u /\ u <= 100
             /\ WideLeq(WideMulSmall(Wide(rec.supplyCap), u), cur100)
             /\ WideLess(cur100, WideMulSmall(Wide(rec.supplyCap), u + 1))

C20_Witness ==
    /\ IsSupplyCapsCall
    /\ ret.status = 200
    /\ ret.body.data[1].currentSupply = 500000000
    /\ ret.body.data[1].utilizationPercentage = 50

(***************************************************************************)
(* Properties of the historical exchange rates                              *)
(***************************************************************************)
\* the instant a timestamp string of the simulated records denotes
\* (RFC 3339, UTC): <<year, month, day, hour, minute, second, millisecond>>
Instant(timestamp) ==
    CASE timestamp = "2025-12-18T17:46:10.274Z" -> <<2025, 12, 18, 17, 46, 10, 274>>
      [] timestamp = "2025-12-18T17:47:08.161Z" -> <<2025, 12, 18, 17, 47, 8, 161>>

\* instant x is not later than instant y
NotLater(x, y) ==
    \/ x = y
    \/ \E k \in 1..7 : x[k] < y[k] /\ \A j \in 1..(k - 1) : x[j] = y[j]

\* C21: the records returned by get_historical_exchange_rates are ordered by
\* timestamp ascending: no record is older than the record before it, so
\* the newest record is last.
C21_RatesOrderedByTimestamp ==
    (IsRatesCall /\ ret.status = 200)
    => LET data == ret.body.data IN
       /\ \A k \in 1..(Len(data) - 1) :
             NotLater(Instant(data[k].timestamp), Instant(data[k + 1].timestamp))
       /\ \A k \in 1..Len(data) :
             NotLater(Instant(data[k].timestamp), Instant(data[Len(data)].timestamp))

\* two records are returned, the second one 58 seconds after the first
C21_Witness ==
    /\ IsRatesCall
    /\ ret.status = 200
    /\ Len(ret.body.data) = 2
    /\ ret.body.data[1].timestamp # ret.body.data[2].timestamp
    /\ ret.body.data[2].id = 104137

(***************************************************************************)
(* Properties of the transaction-generation endpoints                       *)
(***************************************************************************)
\* the handlers of /stablecoins/mint/tx, /stablecoins/burn/tx,
\* /integrations/redeem/tx and /integrations/claim/tx
IsTxEndpointCall ==
    call.fn \in {"generate_mint_transaction", "generate_burn_transaction",
                 "generate_redemption_tx", "generate_claim_tx"}

\* C22 (as claimed): on success every transaction-generation endpoint
\* (mint/tx, burn/tx, integrations redeem/tx and claim/tx) returns 200 with
\* a body of the shape {success: true, data: {transaction: <descriptor>}}.
C22_TxEndpointsSuccessShape ==
    (IsTxEndpointCall /\ ret.status = 200)
    => /\ DOMAIN ret.body = {"success", "data"}
       /\ ret.body.success = TRUE
       /\ DOMAIN ret.body.data = {"transaction"}

IsIntegrationAmountCall ==
    call.fn \in {"generate_redemption_tx", "generate_integration_mint_tx"}

\* C23 (as claimed): generate_redemption_tx and
\* generate_integration_mint_tx reject every request whose amount is zero
\* or negative with the InvalidAmount envelope (400, success: false) and
\* return no transaction for it.
C23_IntegrationAmountRejected ==
    (IsIntegrationAmountCall /\ call.payload.amount <= 0)
    => /\ ret.status = 400
       /\ "success" \in DOMAIN ret.body
       /\ ret.body.success = FALSE
       /\ "tx" \notin DOMAIN ret.body
       /\ "data" \notin DOMAIN ret.body

(***************************************************************************)
(* Properties of the internal-error handlers                                *)
(***************************************************************************)
ErrorHandlers ==
    {"get_mint_redeem_quote_error",
     "generate_mint_transaction_error",
     "generate_burn_transaction_error",
     "get_realtime_exchange_rate_error",
     "get_historical_apy_error",
     "get_historical_exchange_rates_error",
     "get_available_stablecoins_error",
     "get_supply_caps_error",
     "get_all_apy_error",
     "get_latest_exchange_rates_error"}

IsErrorHandlerCall == call.fn \in ErrorHandlers

\* C24: each internal-error handler of the stablecoin module
\* (get_mint_redeem_quote_error, generate_mint_transaction_error,
\* generate_burn_transaction_error and the other *_error functions) returns
\* 500 with exactly {success: false, message: "Internal server error"} and
\* no other field, on every call.
C24_InternalErrorIsOpaque ==
    IsErrorHandlerCall
    => /\ ret.status = 500
       /\ DOMAIN ret.body = {"success", "message"}
       /\ ret.body.success = FALSE
       /\ ret.body.message = "Internal server error"

C24_Witness ==
    /\ call.fn = "get_supply_caps_error"
    /\ ret.status = 500
    /\ ret.body.message = "Internal server error"

(***************************************************************************)
(* Properties of the fields of the transaction requests                     *)
(***************************************************************************)
\* the minimum received of a mint or burn transaction call
TxMinimumReceived == IF call.fn = "generate_mint_transaction"
                     THEN call.req.minimumReceived ELSE call.req.minimum_received

\* the net amount quoted for the deposit of a mint or burn transaction call
TxNetAmount == TxAmount - TruncDiv(TxAmount, 1000)

\* C25 (as claimed): generate_mint_transaction and
\* generate_burn_transaction return a transaction only if the net amount
\* quoted for the deposit (depositAmount - depositAmount/1000) is at least
\* the minimum received; a request whose minimum received exceeds the net
\* amount gets no transaction.
C25_SlippageProtected ==
    IsTxCall
    => /\ (ret.status = 200 => TxNetAmount >= TxMinimumReceived)
       /\ (TxMinimumReceived > TxNetAmount => "data" \notin DOMAIN ret.body)

(***************************************************************************)
(* Properties of the routes with a path parameter                           *)
(***************************************************************************)
IsHistoricalRatesRequest(r) ==
    r.route = "/stablecoins/stablecoin/:index/exchange-rates/historical"

\* C26 (as claimed): for the route
\* /stablecoin/:index/exchange-rates/historical the index of the URL path
\* determines the asset of the result: every record returned has its
\* stablecoin field equal to the path index.
C26_PathIndexIsRecordAsset ==
    \A s \in Slots :
        (pc[s] = "handled" /\ IsHistoricalRatesRequest(req[s]))
        => \A k \in DOMAIN resp[s].body.data :
              resp[s].body.data[k].stablecoin = req[s].index

(***************************************************************************)
(* Properties of the inputs a transaction response depends on               *)
(***************************************************************************)
\* the response of the handler of the call to another request
TxResponseTo(c, i, a, sg, m, cm) ==
    IF call.fn = "generate_mint_transaction"
    THEN generate_mint_transaction(ClusterQuery(c), MintRequest(i, a, sg, m, cm))
    ELSE generate_burn_transaction(ClusterQuery(c), BurnRequest(i, a, sg, m, cm))

IsSuccessfulQuoteCall ==
    IsQuoteCall /\ call.req.depositAmount > 0 /\ call.quote_type \in {"mint", "redeem"}

IsSuccessfulWideQuoteCall ==
    /\ IsWideQuoteCall /\ i64_is_positive(call.req.depositAmount)
    /\ call.quote_type \in {"mint", "redeem"}

\* C28: for every depositAmount > 0 the quote q returned by
\* get_mint_redeem_quote satisfies 0 < q <= depositAmount, and
\* q = depositAmount (a zero fee) exactly when depositAmount < 1000; on the
\* small amounts and at the top of the i64 range.
C28_QuoteWithinAmount ==
    /\ IsSuccessfulQuoteCall
       => /\ ret.status = 200
          /\ 0 < ret.body.data
          /\ ret.body.data <= call.req.depositAmount
          /\ (ret.body.data = call.req.depositAmount <=> call.req.depositAmount < 1000)
    /\ IsSuccessfulWideQuoteCall
       => /\ ret.status = 200
          /\ i64_is_positive(ret.body.data)
          /\ WideLeq(ret.body.data.mag, call.req.depositAmount.mag)
          /\ (ret.body.data = call.req.depositAmount
              <=> WideLess(call.req.depositAmount.mag, Wide(1000)))

\* the first amount with a fee: 1000 is quoted 999
C28_Witness ==
    /\ IsQuoteCall
    /\ call.quote_type = "mint"
    /\ call.req.depositAmount = 1000
    /\ ret.status = 200
    /\ ret.body.data = 999

\* the quote of the amount that follows the amount of the call
NextQuote ==
    get_mint_redeem_quote(call.quote_type,
                          QuoteRequest(call.req.stablecoinIndex,
                                       call.req.depositAmount + 1)).body.data

\* the same on the i64 range, for an amount below i64::MAX
NextWideAmount == I64(FALSE, WideAdd(call.req.depositAmount.mag, Wide(1)))
NextWideQuote ==
    quoted_amount_i64(QuoteRequest(call.req.stablecoinIndex, NextWideAmount)).value

\* C29: the quote is monotone non-decreasing in depositAmount: for every
\* a > 0, quote(a + 1) - quote(a) is 0 or 1, and it is 0 exactly when
\* a + 1 is a multiple of 1000 (999 and 1000 both quote 999); on the small
\* amounts and at the top of the i64 range.
C29_QuoteMonotone ==
    /\ IsSuccessfulQuoteCall
       => /\ NextQuote - ret.body.data \in {0, 1}
          /\ (NextQuote = ret.body.data <=> (call.req.depositAmount + 1) % 1000 = 0)
    /\ (IsSuccessfulWideQuoteCall /\ call.req.depositAmount.mag # I64_MAX)
       => /\ ret.status = 200
          /\ SignedSub(NextWideQuote, ret.body.data) \in {I64(FALSE, Wide(0)),
                                                          I64(FALSE, Wide(1))}
          /\ (NextWideQuote = ret.body.data <=> NextWideAmount.mag[1] = 0)

\* 999 is quoted 999, as 1000 is
C29_Witness ==
    /\ IsQuoteCall
    /\ call.quote_type = "redeem"
    /\ call.req.depositAmount = 999
    /\ ret.status = 200
    /\ ret.body.data = 999
    /\ NextQuote = 999

====
